---- MODULE Spec2Model ----
(***************************************************************************)
(* A model of duplicate_finder.py: the image store (a MongoDB collection,  *)
(* keyed by absolute file path), the indexer (add / remove / clear), the   *)
(* duplicate resolver (find, same_time) and the disposal engine            *)
(* (delete_duplicates, delete_picture), over a small file system.          *)
(***************************************************************************)
EXTENDS Integers, Sequences, FiniteSets, TLC

\* ------------------------------------------------------------------------
\* Bounds of the model
\* ------------------------------------------------------------------------

\* The most <path> arguments of one add or remove command.
MaxPaths == 2

\* The most calls of delete_picture in one command that the environment
\* fails (an error of the move or of the collection).
MaxFaults == 1

\* The most stored files that may be missing from the disk at a time.
MaxMissing == 1

\* The most commands and outside events of one behaviour, after the add
\* that filled the store before it.
MaxSteps == 2

\* The add commands that run at the same time against one store
MaxProcs == 2

\* The --hash-size values asked for are 0 and 2^k + r, k up to MaxExp and r
\* up to MaxRem; pictures are hashed with sizes up to 2^MaxHashExp.
MaxExp == 54

MaxRem == 3

MaxHashExp == 4

\* ------------------------------------------------------------------------
\* The file system
\* ------------------------------------------------------------------------

\* Directories the user keeps pictures in, and file names; a file's identity
\* is its absolute path, modelled as <<directory, base name>>.
UserDirs == {"x", "y"}

Names == {"a", "b"}

\* The default trash directory and the one the user may ask for.
DefaultTrash == "Trash"

OtherTrash == "Bin"

\* --trash: not given, or another directory
TrashArgs == {"", OtherTrash}

\* Files are found in the user's directories and, once the tool has put
\* some there, in the default trash.
Dirs == UserDirs \cup {DefaultTrash}

Paths == Dirs \X Names

UserPaths == UserDirs \X Names

NoFile == [kind |-> "none"]

Unknown == "Time unknown"

\* File contents. A picture is one of a few scenes (pic), stored at some
\* quarter-turn rotation (rot), with or without an EXIF capture time; a
\* "corrupt" file has an image mime type and cannot be decoded.
Picture(scene, quarters, time) ==
    [kind |-> "image", pic |-> scene, rot |-> quarters, exif |-> time]

Dated == Picture(1, 0, "2020:01:01")

Turned == Picture(1, 1, "2021:01:01")

Undated == Picture(1, 0, "")

Other == Picture(2, 0, "2020:01:01")

Corrupt == [kind |-> "corrupt"]

\* A picture the decoder refuses with an error that is no OSError (Pillow's
\* DecompressionBombError for a picture of too many pixels).
Huge == [kind |-> "bomb"]

\* What each path may hold in the initial state; the trash may hold a file
\* that an earlier use of the tool has put there.
Candidates(f) ==
    CASE f = <<"x", "a">> -> {Dated}
      [] f = <<"x", "b">> -> {Undated}
      [] f = <<"y", "a">> -> {Turned, Other}
      [] f = <<"y", "b">> -> {Other, Corrupt}
      [] f = <<DefaultTrash, "a">> -> {NoFile, Dated}
      [] OTHER -> {NoFile}

\* os.path.basename and the directory part of a path
basename(file_name) == file_name[2]

dirname(file_name) == file_name[1]

\* ------------------------------------------------------------------------
\* State
\* ------------------------------------------------------------------------

VARIABLES
    disk,       \* the file system: path -> contents, or NoFile
    trashDir,   \* the directories among the trash locations that exist
    db,         \* the images collection: slots in natural (scan) order,
                \* each <<document>> or <<>> (space freed by a delete)
    inserted,   \* history: the identities now stored, in insertion order
    last,       \* what the last command did and reported
    steps,      \* the number of commands and outside events so far
    procs       \* the add commands running at the same time

vars == <<disk, trashDir, db, inserted, last, steps, procs>>

\* ------------------------------------------------------------------------
\* Sequences
\* ------------------------------------------------------------------------

Range(s) == {s[i] : i \in 1..Len(s)}

RECURSIVE Perms(_)
Perms(S) ==
    IF S = {} THEN {<<>>}
    ELSE UNION {{<<x>> \o p : p \in Perms(S \ {x})} : x \in S}

RECURSIVE Flatten(_)
Flatten(ss) == IF ss = <<>> THEN <<>> ELSE Head(ss) \o Flatten(Tail(ss))

\* ------------------------------------------------------------------------
\* File discovery and hashing
\* ------------------------------------------------------------------------

\* is_image: the sniffed mime type is one Pillow supports. A corrupt picture
\* still has an image mime type.
is_image(contents) == contents.kind \in {"image", "corrupt", "bomb"}

\* The order in which os.walk lists the files of a directory: the file
\* system's, taken to be the order of the names.
Listing == <<"a", "b">>

\* get_image_files(path): the image files under a directory, as os.walk
\* yields them
get_image_files(path, fs) ==
    SelectSeq([i \in 1..Len(Listing) |-> <<path, Listing[i]>>],
              LAMBDA f : fs[f] # NoFile /\ is_image(fs[f]))

HASH_SIZE == 8

\* img.rotate(angle, expand=True) for a multiple of 90 degrees
rotate(img, quarters) == [img EXCEPT !.rot = (img.rot + quarters) % 4]

\* imagehash.phash of a decoded image: a value fixed by the pixels (scene
\* and orientation) and the hash size. Hex strings of one length sort as
\* the numbers they spell.
phash(img, hash_size) == hash_size * 100 + img.pic * 10 + img.rot

get_file_size(contents) == 1000 * contents.pic + contents.rot

get_image_size(img) == IF img.rot % 2 = 0 THEN <<4, 3>> ELSE <<3, 4>>

get_capture_time(img) == IF img.exif = "" THEN Unknown ELSE img.exif

NoResult == [file |-> <<"", "">>]

\* The outcome of hash_file when an exception leaves it: `except OSError`
\* catches no other kind.
Uncaught == [file |-> <<"", "!">>]

\* hash_file with the four orientation hashes joined in the order of the
\* angles
hash_file_unsorted(file, fs, hash_size) ==
    IF fs[file] # NoFile /\ fs[file].kind = "bomb" THEN Uncaught
    ELSE IF fs[file] = NoFile \/ fs[file].kind # "image" THEN NoResult
    ELSE [file |-> file,
          hashes |-> [q \in 1..4 |-> phash(rotate(fs[file], q - 1), hash_size)],
          file_size |-> get_file_size(fs[file]),
          image_size |-> get_image_size(fs[file]),
          capture_time |-> get_capture_time(fs[file])]

\* hash_file: the four orientation hashes, sorted and joined; None (here
\* NoResult) when the file cannot be opened as an image.
hash_file(file, fs, hash_size) ==
    IF fs[file] # NoFile /\ fs[file].kind = "bomb" THEN Uncaught
    ELSE IF fs[file] = NoFile \/ fs[file].kind # "image" THEN NoResult
    ELSE [file |-> file,
          hashes |-> SortSeq([q \in 1..4 |->
                                 phash(rotate(fs[file], q - 1), hash_size)],
                             LAMBDA a, b : a < b),
          file_size |-> get_file_size(fs[file]),
          image_size |-> get_image_size(fs[file]),
          capture_time |-> get_capture_time(fs[file])]

\* What the workers of the pool return, in the order of the input
Outcomes(files, fs) == [i \in 1..Len(files) |-> hash_file(files[i], fs, HASH_SIZE)]

\* executor.map raises a worker's exception when its turn comes: the
\* outcomes before the first exception are the ones handed on.
Reached(outcomes) ==
    LET bad == {i \in 1..Len(outcomes) : outcomes[i] = Uncaught}
    IN  IF bad = {} THEN outcomes
        ELSE SubSeq(outcomes, 1, (CHOOSE i \in bad : \A j \in bad : i <= j) - 1)

\* hash_files_parallel: executor.map yields the results in the order of the
\* input, and the None results are skipped.
hash_files_parallel(files, fs) ==
    SelectSeq(Reached(Outcomes(files, fs)), LAMBDA r : r # NoResult)

\* Whether an exception of a worker ends hash_files_parallel
hash_files_raises(files, fs) == Uncaught \in Range(Outcomes(files, fs))

\* ------------------------------------------------------------------------
\* The images collection
\* ------------------------------------------------------------------------

Free == <<>>

\* The documents, in natural order (the order of a collection scan).
Docs(coll) == Flatten(coll)

Ids(coll) == {d._id : d \in Range(Docs(coll))}

DocOf(coll, file) == CHOOSE d \in Range(Docs(coll)) : d._id = file

\* db.count({"_id": file})
count(coll, file) == Cardinality({i \in 1..Len(coll) :
                                     coll[i] # Free /\ coll[i][1]._id = file})

RECURSIVE Trim(_)
Trim(coll) ==
    IF coll # <<>> /\ coll[Len(coll)] = Free
    THEN Trim(SubSeq(coll, 1, Len(coll) - 1))
    ELSE coll

\* db.insert_one(doc): what it may do. The unique index on _id refuses a
\* document whose _id is present (DuplicateKeyError); otherwise the storage
\* engine puts the document at the end of the collection or into the first
\* space a delete has freed; the program asks for neither.
insert_one(coll, doc) ==
    LET free == {i \in 1..Len(coll) : coll[i] = Free}
    IN  IF count(coll, doc._id) > 0
        THEN {[error |-> "DuplicateKeyError", coll |-> coll]}
        ELSE {[error |-> "", coll |-> c] :
                c \in {Append(coll, <<doc>>)}
                        \cup {[coll EXCEPT ![i] = <<doc>>] :
                                i \in {j \in free : \A k \in free : j <= k}}}

\* A delete that takes every document of the file's directory
delete_one_dir(coll, file) ==
    Trim([i \in 1..Len(coll) |->
             IF coll[i] # Free /\ dirname(coll[i][1]._id) = dirname(file)
             THEN Free ELSE coll[i]])

\* db.delete_one({'_id': file}): no document with that _id is no error.
delete_one(coll, file) ==
    Trim([i \in 1..Len(coll) |->
             IF coll[i] # Free /\ coll[i][1]._id = file THEN Free ELSE coll[i]])

\* A drop that takes the first document only
drop_first(coll) == IF coll = <<>> THEN coll ELSE Tail(coll)

\* db.drop()
drop(coll) == <<>>

\* ------------------------------------------------------------------------
\* The indexer: add, remove, clear
\* ------------------------------------------------------------------------

\* A run of a command carries the collection, the insertion history and
\* the lines it printed (a set of <<message, file>>), and whether an
\* exception has ended it.
Run(coll, hist, out) ==
    [db |-> coll, inserted |-> hist, log |-> out, raised |-> FALSE]

\* _add_to_database writing over the document of an _id that is present
_add_to_database_upsert(result, run) ==
    LET doc == [_id |-> result.file,
                hash |-> result.hashes,
                file_size |-> result.file_size,
                image_size |-> result.image_size,
                capture_time |-> result.capture_time]
    IN  IF count(run.db, result.file) > 0
        THEN {[run EXCEPT !.db = [i \in 1..Len(run.db) |->
                                     IF run.db[i] # Free /\ run.db[i][1]._id = result.file
                                     THEN <<doc>> ELSE run.db[i]]]}
        ELSE {Run(o.coll, Append(run.inserted, result.file), run.log) :
                o \in insert_one(run.db, doc)}

\* A document as _add_to_database builds it from a result of hash_file
Document(result) ==
    [_id |-> result.file,
     hash |-> result.hashes,
     file_size |-> result.file_size,
     image_size |-> result.image_size,
     capture_time |-> result.capture_time]

\* _add_to_database letting the DuplicateKeyError through
_add_to_database_uncaught(result, run) ==
    {IF o.error = "DuplicateKeyError"
     THEN [run EXCEPT !.raised = TRUE]
     ELSE Run(o.coll, Append(run.inserted, result.file), run.log) :
        o \in insert_one(run.db, Document(result))}

\* _add_to_database: insert_one raises DuplicateKeyError for an _id that is
\* present; it is caught and reported. The runs that may result.
_add_to_database(result, run) ==
    {IF o.error = "DuplicateKeyError"
     THEN [run EXCEPT !.log = @ \cup {<<"Duplicate key", result.file>>}]
     ELSE Run(o.coll, Append(run.inserted, result.file), run.log) :
        o \in insert_one(run.db, Document(result))}

\* _in_database asking whether the collection holds anything
_in_database_any(file, coll) == Len(Docs(coll)) > 0

_in_database(file, coll) == count(coll, file) > 0

\* new_image_files without the look in the collection
new_image_files_all(files, coll) == files

\* new_image_files: the files not yet in the collection, in walk order
new_image_files(files, coll) ==
    SelectSeq(files, LAMBDA f : ~_in_database(f, coll))

RECURSIVE InsertResults(_, _)
InsertResults(results, runs) ==
    IF results = <<>> THEN runs
    ELSE InsertResults(Tail(results),
                       UNION {_add_to_database(Head(results), r) : r \in runs})

\* The body of add's loop for one path: discover, drop the files already
\* stored, hash the rest, insert every result. executor.map submits every
\* file before the first result is inserted, so the existence checks of a
\* path all precede its inserts.
AddPath(path, fs, run) ==
    LET files == get_image_files(path, fs)
        new == new_image_files(files, run.db)
        results == hash_files_parallel(new, fs)
        failed == {new[i] : i \in {j \in 1..Len(new) :
                                       hash_file(new[j], fs, HASH_SIZE) = NoResult}}
        out == run.log
                 \cup {<<"Already hashed", f>> : f \in Range(files) \ Range(new)}
                 \cup {<<"Hashed", r.file>> : r \in Range(results)}
                 \cup {<<"Unable to open", f>> : f \in failed}
    IN  {[r EXCEPT !.raised = hash_files_raises(new, fs)] :
            r \in InsertResults(results, {[run EXCEPT !.log = out]})}

\* add(paths, db): the runs that may result. An exception ends the command
\* where it is.
RECURSIVE add(_, _, _)
add(paths, fs, runs) ==
    IF paths = <<>> THEN runs
    ELSE add(Tail(paths), fs,
             UNION {IF r.raised THEN {r} ELSE AddPath(Head(paths), fs, r) :
                      r \in runs})

\* remove_image(file, db)
remove_image(file, run) ==
    [run EXCEPT !.db = delete_one(@, file),
                !.inserted = SelectSeq(@, LAMBDA f : f # file)]

RECURSIVE RemoveFiles(_, _)
RemoveFiles(files, run) ==
    IF files = <<>> THEN run
    ELSE RemoveFiles(Tail(files), remove_image(Head(files), run))

\* remove(paths, db)
RECURSIVE remove(_, _, _)
remove(paths, fs, run) ==
    IF paths = <<>> THEN run
    ELSE remove(Tail(paths), fs,
                RemoveFiles(get_image_files(Head(paths), fs), run))

\* clear(db)
clear(run) == [run EXCEPT !.db = drop(@), !.inserted = <<>>]

\* ------------------------------------------------------------------------
\* The duplicate resolver: find, same_time
\* ------------------------------------------------------------------------

Item(doc) == [file_name |-> doc._id,
              file_size |-> doc.file_size,
              image_size |-> doc.image_size,
              capture_time |-> doc.capture_time]

\* The $group stage for one hash: $sum counts the documents and $push
\* collects them in the order they come out of the scan.
Group(docs, h) ==
    LET of == SelectSeq(docs, LAMBDA d : d.hash = h)
    IN  [_id |-> h, total |-> Len(of), items |-> [i \in 1..Len(of) |-> Item(of[i])]]

\* aggregate with the $match stage letting single documents through
aggregate_no_match(coll) ==
    LET docs == Docs(coll)
    IN  Perms({g \in {Group(docs, d.hash) : d \in Range(docs)} : g.total > 0})

\* db.aggregate([$group by hash, $match total > 1]): the results it may
\* give. The pipeline has no $sort, so the groups come in an order the
\* server chooses.
aggregate(coll) ==
    LET docs == Docs(coll)
    IN  Perms({g \in {Group(docs, d.hash) : d \in Range(docs)} : g.total > 1})

\* Python's == between a dict (an item of the cluster) and a str is False.
dict_eq_str(item, str) == FALSE

\* same_time that only rejects three or more distinct capture times
same_time_loose(dup) ==
    Cardinality({dup.items[i].capture_time : i \in 1..Len(dup.items)}) <= 2

\* same_time(dup)
same_time(dup) ==
    IF \E i \in 1..Len(dup.items) : dict_eq_str(dup.items[i], Unknown)
    THEN TRUE
    ELSE IF Cardinality({dup.items[i].capture_time : i \in 1..Len(dup.items)}) > 1
         THEN FALSE
         ELSE TRUE

\* find(db, match_time): the lists it may return
find(coll, match_time) ==
    IF match_time
    THEN {SelectSeq(dups, same_time) : dups \in aggregate(coll)}
    ELSE aggregate(coll)

\* ------------------------------------------------------------------------
\* The disposal engine: delete_picture, delete_duplicates
\* ------------------------------------------------------------------------

\* What the environment does to one call of delete_picture: nothing, or an
\* error of shutil.move other than a missing file (no permission, a full
\* disk). The collection is taken to answer.
Faults == {"ok", "move"}

\* The faults of one command: at most MaxFaults of its calls fail this way.
FaultsOf(files) ==
    {fs \in [files -> Faults] :
        Cardinality({f \in files : fs[f] # "ok"}) <= MaxFaults}

\* The files shown in a list of clusters
Members(duplicates) ==
    UNION {{duplicates[i].items[j].file_name : j \in 1..Len(duplicates[i].items)}
           : i \in 1..Len(duplicates)}

\* A disposal in progress: the file system, the collection, the results of
\* the calls so far, the moves made, and whether an exception escaped.
Disposal(fs, dirs, run) ==
    [disk |-> fs, trashDir |-> dirs, db |-> run.db, inserted |-> run.inserted,
     log |-> run.log, results |-> <<>>, moved |-> {}, raised |-> FALSE,
     totals |-> <<>>]

\* shutil.move(file_name, trash + basename): os.rename replaces a file at
\* the destination, and renaming a file to itself changes nothing.
move(fs, file_name, dst) ==
    IF file_name = dst THEN fs
    ELSE [fs EXCEPT ![dst] = fs[file_name], ![file_name] = NoFile]

\* delete_picture with remove_image ahead of the move: the record goes even
\* when the file is missing
delete_picture_eager(file_name, d, trash, can_mkdir, fault) ==
    LET dst == <<trash, basename(file_name)>>
        made == [d EXCEPT !.trashDir = @ \cup {trash},
                          !.log = @ \cup {<<"Moving", file_name>>},
                          !.db = delete_one(@, file_name),
                          !.inserted = SelectSeq(@, LAMBDA f : f # file_name)]
    IN  IF trash \notin d.trashDir /\ ~can_mkdir
        THEN [d EXCEPT !.raised = TRUE,
                       !.log = @ \cup {<<"Moving", file_name>>}]
        ELSE IF made.disk[file_name] = NoFile
        THEN [made EXCEPT !.results = Append(@, FALSE),
                          !.log = @ \cup {<<"File not found", file_name>>}]
        ELSE IF fault = "move"
        THEN [made EXCEPT !.results = Append(@, FALSE),
                          !.log = @ \cup {<<"Error", file_name>>}]
        ELSE [made EXCEPT !.disk = move(@, file_name, dst),
                          !.moved = @ \cup {<<file_name, dst>>},
                          !.results = Append(@, TRUE)]

\* delete_picture(file_name, db, trash). can_mkdir: whether os.makedirs
\* succeeds should the trash directory be missing.
delete_picture(file_name, d, trash, can_mkdir, fault) ==
    LET dst == <<trash, basename(file_name)>>
        made == [d EXCEPT !.trashDir = @ \cup {trash},
                          !.log = @ \cup {<<"Moving", file_name>>}]
    IN  IF trash \notin d.trashDir /\ ~can_mkdir
        THEN \* os.makedirs is outside the try: its error escapes
             [d EXCEPT !.raised = TRUE,
                       !.log = @ \cup {<<"Moving", file_name>>}]
        ELSE IF made.disk[file_name] = NoFile
        THEN [made EXCEPT !.results = Append(@, FALSE),
                          !.log = @ \cup {<<"File not found", file_name>>}]
        ELSE IF fault = "move"
        THEN [made EXCEPT !.results = Append(@, FALSE),
                          !.log = @ \cup {<<"Error", file_name>>}]
        ELSE [made EXCEPT !.disk = move(@, file_name, dst),
                          !.moved = @ \cup {<<file_name, dst>>},
                          !.db = delete_one(@, file_name),
                          !.inserted = SelectSeq(@, LAMBDA f : f # file_name),
                          !.results = Append(@, TRUE)]

\* delete_duplicates going over dup['items'] whole, the first member too
DoomedAll(duplicates) ==
    Flatten([i \in 1..Len(duplicates) |->
                [j \in 1..Len(duplicates[i].items) |->
                    duplicates[i].items[j].file_name]])

\* The members delete_duplicates disposes of: all but the first of each
\* cluster, in order.
Doomed(duplicates) ==
    Flatten([i \in 1..Len(duplicates) |->
                [j \in 1..Len(duplicates[i].items) - 1 |->
                    duplicates[i].items[j + 1].file_name]])

RECURSIVE DeleteEach(_, _, _, _, _)
DeleteEach(files, d, trash, can_mkdir, faults) ==
    IF files = <<>> \/ d.raised THEN d
    ELSE DeleteEach(Tail(files),
                    delete_picture(Head(files), d, trash, can_mkdir,
                                   faults[Head(files)]),
                    trash, can_mkdir, faults)

\* delete_duplicates(duplicates, db): delete_picture is called with its
\* default trash, "./Trash/". The totals are printed unless a call raised.
delete_duplicates(duplicates, d, can_mkdir, faults) ==
    LET done == DeleteEach(Doomed(duplicates), d, DefaultTrash, can_mkdir, faults)
    IN  IF done.raised THEN done
        ELSE [done EXCEPT !.totals =
                <<Len(SelectSeq(done.results, LAMBDA r : r)), Len(done.results)>>]

\* ------------------------------------------------------------------------
\* The commands
\* ------------------------------------------------------------------------

\* An add command running beside others: idle, about to discover the files
\* of its next path ("scan"), inserting the results of a path ("insert"),
\* over ("done"), or ended by an exception ("failed").
Procs == 1..MaxProcs

Idle == [pc |-> "idle", paths |-> <<>>, todo |-> <<>>]

\* ------------------------------------------------------------------------
\* The hash size: next_power_of_2
\* ------------------------------------------------------------------------

\* A Python int of any size: 0, or 2^exp + rem with 0 <= rem < 2^exp.
Zero == [exp |-> 0 - 1, rem |-> 0]

Pow2(k) == [exp |-> k, rem |-> 0]

\* The significant bits of a float (sys.float_info.mant_dig)
MANT_DIG == 53

\* The float math.log2 gets for an int: exact up to MANT_DIG bits, else the
\* nearest float, ties to the even mantissa. (rem is far below 2^exp here,
\* so rounding never reaches the next power of two.)
to_float(x) ==
    IF x = Zero \/ x.exp < MANT_DIG THEN x
    ELSE LET spacing == 2 ^ (x.exp - (MANT_DIG - 1))
             q == x.rem \div spacing
             t == x.rem % spacing
             up == 2 * t > spacing \/ (2 * t = spacing /\ q % 2 = 1)
         IN  [exp |-> x.exp, rem |-> (q + (IF up THEN 1 ELSE 0)) * spacing]

\* math.ceil(math.log2(x)) for x > 0. The logarithm of the float 2^k + r
\* is k + log2(1 + r / 2^k), itself rounded to a float: for k from 49 on
\* (floats between 32 and 64 are 2^-47 apart) it rounds to k when
\* r * log2(e) < 2^(k - 48).
ceil_log2(x) ==
    LET f == to_float(x)
        flat == /\ f.exp >= 49
                /\ f.rem * 14427 < 10000 * (2 ^ (f.exp - 48))
    IN  IF f.rem = 0 \/ flat THEN f.exp ELSE f.exp + 1

\* next_power_of_2(x) for x >= 0
next_power_of_2(x) == IF x = Zero THEN Pow2(0) ELSE Pow2(ceil_log2(x))

\* The --hash-size arguments
Requests ==
    {Zero} \cup {x \in [exp : 0..MaxExp, rem : 0..MaxRem] :
                    x.exp >= 5 \/ x.rem < 2 ^ x.exp}

\* The <path> arguments of add and remove: one to MaxPaths directories, no
\* directory twice
PathArgs ==
    {paths \in UNION {[1..n -> Dirs] : n \in 1..MaxPaths} :
        \A i, j \in 1..Len(paths) : i # j => paths[i] # paths[j]}

\* TRASH as __main__ sets it from --trash
TRASH(arg) == IF arg # "" THEN arg ELSE DefaultTrash

\* What a command leaves behind for the observer: its name and arguments
\* (the paths as a set),
\* the clusters it found, the results and totals of its disposals, the
\* moves it made, the lines it printed, whether an exception ended it,
\* whether it is the add before it run again, the result it tried to insert,
\* whether a remove or clear took records away, the --hash-size asked
\* for and the hash size used.
Cmd(name) ==
    [op |-> name, paths |-> {}, match_time |-> FALSE, trash |-> DefaultTrash,
     dups |-> <<>>, results |-> <<>>, totals |-> <<>>, moved |-> {},
     log |-> {}, raised |-> FALSE, again |-> FALSE, tried |-> NoResult,
     took |-> FALSE, asked |-> Zero, hash_size |-> Pow2(3)]

\* The files are as the user left them (y holds a turned copy of x/a beside
\* a file that cannot be decoded, or two copies of another scene), the
\* trash directory exists if it
\* holds a file, and the database, which outlives the commands, is empty or
\* as an earlier add of some of the directories has filled it.
Init ==
    /\ disk \in [Paths -> {NoFile, Dated, Turned, Undated, Other, Corrupt}]
    /\ \A f \in Paths : disk[f] \in Candidates(f)
    /\ disk[<<"y", "b">>] = Corrupt <=> disk[<<"y", "a">>] = Turned
    /\ trashDir = {dirname(f) : f \in {g \in Paths \ UserPaths : disk[g] # NoFile}}
    /\ \E paths \in PathArgs \cup {<<>>} :
         \E r \in add(paths, disk, {Run(<<>>, <<>>, {})}) :
           /\ db = r.db
           /\ inserted = r.inserted
    /\ last = Cmd("start")
    /\ steps = 0
    /\ procs = [p \in Procs |-> Idle]

Step ==
    /\ steps < MaxSteps
    /\ steps' = steps + 1
    /\ UNCHANGED procs

\* duplicate_finder.py add <path> ...
Add ==
    /\ Step
    /\ \E paths \in PathArgs :
         \E r \in add(paths, disk, {Run(db, inserted, {})}) :
           /\ db' = r.db
           /\ inserted' = r.inserted
           /\ last' = [Cmd("add") EXCEPT
                           !.paths = Range(paths), !.log = r.log,
                           !.raised = r.raised,
                           !.again = (last.op = "add" /\ last.paths = Range(paths))]
           /\ UNCHANGED <<disk, trashDir>>

\* duplicate_finder.py remove <path> ...
Remove ==
    /\ Step
    /\ \E paths \in PathArgs :
         LET r == remove(paths, disk, Run(db, inserted, {}))
         IN  /\ db' = r.db
             /\ inserted' = r.inserted
             /\ last' = [Cmd("remove") EXCEPT !.paths = Range(paths),
                                              !.took = Len(Docs(r.db)) < Len(Docs(db))]
             /\ UNCHANGED <<disk, trashDir>>

\* duplicate_finder.py clear
Clear ==
    /\ Step
    /\ LET r == clear(Run(db, inserted, {}))
       IN  /\ db' = r.db
           /\ inserted' = r.inserted
           /\ last' = [Cmd("clear") EXCEPT !.took = Len(Docs(db)) > 0]
           /\ UNCHANGED <<disk, trashDir>>

\* duplicate_finder.py find [--print] [--match-time] [--trash=...]: the
\* clusters are printed, or shown by the review page (display_duplicates).
Find ==
    /\ Step
    /\ \E match_time \in BOOLEAN, arg \in TrashArgs, mode \in {"print", "display"} :
         \E dups \in find(db, match_time) :
           /\ mode = "print" => arg = ""
           /\ last' = [Cmd(mode) EXCEPT !.match_time = match_time,
                                         !.trash = TRASH(arg), !.dups = dups]
           /\ UNCHANGED <<disk, trashDir, db, inserted>>

\* Whether os.makedirs can create the trash directory: it is called only
\* when the directory is missing.
MkdirOutcomes == IF DefaultTrash \in trashDir THEN {TRUE} ELSE BOOLEAN

\* duplicate_finder.py find --delete [--match-time] [--trash=...]
FindDelete ==
    /\ Step
    /\ \E match_time \in BOOLEAN, arg \in TrashArgs, can_mkdir \in MkdirOutcomes :
         \E dups \in find(db, match_time) :
           \E faults \in FaultsOf(Range(Doomed(dups))) :
             LET d == delete_duplicates(
                          dups, Disposal(disk, trashDir, Run(db, inserted, {})),
                          can_mkdir, faults)
             IN  /\ disk' = d.disk
                 /\ trashDir' = d.trashDir
                 /\ db' = d.db
                 /\ inserted' = d.inserted
                 /\ last' = [Cmd("delete") EXCEPT
                                 !.match_time = match_time, !.trash = TRASH(arg),
                                 !.dups = dups, !.results = d.results,
                                 !.totals = d.totals, !.moved = d.moved,
                                 !.log = d.log, !.raised = d.raised]

\* DELETE /picture/<file_name> from the review page, while it is served:
\* delete_picture_(file_name, trash) with display_duplicates' default trash.
DeletePictureReq ==
    /\ Step
    /\ last.op \in {"display", "picture"}
    /\ \E file_name \in Members(last.dups), can_mkdir \in MkdirOutcomes, fault \in Faults :
         LET d == delete_picture(
                      file_name, Disposal(disk, trashDir, Run(db, inserted, {})),
                      DefaultTrash, can_mkdir, fault)
         IN  /\ disk' = d.disk
             /\ trashDir' = d.trashDir
             /\ db' = d.db
             /\ inserted' = d.inserted
             /\ last' = [Cmd("picture") EXCEPT
                             !.paths = {file_name}, !.trash = last.trash,
                             !.dups = last.dups, !.results = d.results,
                             !.moved = d.moved, !.log = d.log,
                             !.raised = d.raised]

\* The user deletes a stored file outside the tool.
Vanish ==
    /\ Step
    /\ \E f \in Ids(db) :
         /\ disk[f] # NoFile
         /\ Cardinality({g \in Ids(db) : disk[g] = NoFile \/ g = f}) <= MaxMissing
         /\ disk' = [disk EXCEPT ![f] = NoFile]
         /\ last' = Cmd("vanish")
         /\ UNCHANGED <<trashDir, db, inserted>>

Next ==
    \/ Add
    \/ Remove
    \/ Clear
    \/ Find
    \/ FindDelete
    \/ DeletePictureReq
    \/ Vanish

Spec == Init /\ [][Next]_vars

\* ------------------------------------------------------------------------
\* Add commands running at the same time against one store
\* ------------------------------------------------------------------------

\* The command is through with the first of its paths: it goes on to the
\* next path, or ends after the last.
Onward(proc) ==
    IF Tail(proc.paths) = <<>>
    THEN [proc EXCEPT !.pc = "done", !.paths = <<>>, !.todo = <<>>]
    ELSE [proc EXCEPT !.pc = "scan", !.paths = Tail(@), !.todo = <<>>]

\* The head of add's loop for the first of the paths left: discover, drop the files
\* already stored, hand the rest to the pool. A path with nothing to insert
\* is done with.
Scanned(proc, coll, fs) ==
    LET files == get_image_files(Head(proc.paths), fs)
        results == hash_files_parallel(new_image_files(files, coll), fs)
    IN  IF results = <<>> THEN Onward(proc)
        ELSE [proc EXCEPT !.pc = "insert", !.todo = results]

\* duplicate_finder.py add <path> ... starts beside the others, over
\* directories of the user, and discovers the files of its first path. The
\* commands are numbered in the order they start.
RaceAdd(p) ==
    /\ procs[p].pc = "idle"
    /\ \A q \in Procs : q < p => procs[q].pc # "idle"
    /\ \E paths \in {a \in PathArgs : Range(a) \subseteq UserDirs} :
         procs' = [procs EXCEPT ![p] =
                      Scanned([Idle EXCEPT !.paths = paths], db, disk)]
    /\ last' = Cmd("scan")
    /\ UNCHANGED <<disk, trashDir, db, inserted, steps>>

\* The command goes on to its next path.
RaceScan(p) ==
    /\ procs[p].pc = "scan"
    /\ procs' = [procs EXCEPT ![p] = Scanned(@, db, disk)]
    /\ last' = Cmd("scan")
    /\ UNCHANGED <<disk, trashDir, db, inserted, steps>>

\* The command takes the next result of the pool and inserts it.
RaceInsert(p) ==
    /\ procs[p].pc = "insert"
    /\ LET result == Head(procs[p].todo)
           rest == Tail(procs[p].todo)
       IN  \E r \in _add_to_database(result, Run(db, inserted, {})) :
             /\ db' = r.db
             /\ inserted' = r.inserted
             /\ procs' = [procs EXCEPT ![p] =
                              IF r.raised THEN [@ EXCEPT !.pc = "failed"]
                              ELSE IF rest = <<>> THEN Onward(@)
                              ELSE [@ EXCEPT !.todo = rest]]
             /\ last' = [Cmd("insert") EXCEPT !.paths = {result.file},
                                              !.log = r.log, !.tried = result,
                                              !.raised = r.raised]
    /\ UNCHANGED <<disk, trashDir, steps>>

\* What an editor leaves of a picture of the first scene
Retouched(img) == Other

\* The user saves another picture over a file.
Rewrite ==
    /\ Step
    /\ \E f \in UserPaths :
         /\ disk[f] \notin {NoFile, Corrupt, Other}
         /\ disk' = [disk EXCEPT ![f] = Retouched(@)]
    /\ last' = Cmd("rewrite")
    /\ UNCHANGED <<trashDir, db, inserted>>

NextRace ==
    \/ \E p \in Procs : RaceAdd(p)
    \/ \E p \in Procs : RaceScan(p)
    \/ \E p \in Procs : RaceInsert(p)
    \/ Rewrite

\* The commands start before the tool has been used: the store holds
\* nothing yet and there is no trash directory.
InitRace ==
    /\ Init
    /\ db = <<>>
    /\ trashDir = {}

SpecRace == InitRace /\ [][NextRace]_vars

\* ------------------------------------------------------------------------
\* An add command that is interrupted and run again
\* ------------------------------------------------------------------------

\* duplicate_finder.py add <path> ... starts (command 1); its arguments are
\* kept for the second run.
CrashAdd ==
    /\ procs[1].pc = "idle"
    /\ \E paths \in PathArgs :
         procs' = [procs EXCEPT ![1] =
                      Scanned([pc |-> "idle", paths |-> paths, todo |-> <<>>,
                               args |-> paths], db, disk)]
    /\ last' = Cmd("scan")
    /\ UNCHANGED <<disk, trashDir, db, inserted, steps>>

\* The command is killed (Ctrl-C, power loss) between two writes to the
\* store; insert_one writes one document, wholly or not at all.
Interrupt ==
    /\ procs[1].pc \in {"scan", "insert"}
    /\ procs' = [procs EXCEPT ![1] = [@ EXCEPT !.pc = "killed"]]
    /\ last' = Cmd("interrupt")
    /\ UNCHANGED <<disk, trashDir, db, inserted, steps>>

\* The user runs the same add again (command 2).
Resume ==
    /\ procs[1].pc = "killed"
    /\ procs[2].pc = "idle"
    /\ procs' = [procs EXCEPT ![2] =
                    Scanned([pc |-> "idle", paths |-> procs[1].args,
                             todo |-> <<>>, args |-> procs[1].args], db, disk)]
    /\ last' = Cmd("scan")
    /\ UNCHANGED <<disk, trashDir, db, inserted, steps>>

NextCrash ==
    \/ CrashAdd
    \/ Interrupt
    \/ Resume
    \/ \E p \in Procs : RaceScan(p)
    \/ \E p \in Procs : RaceInsert(p)

SpecCrash == InitRace /\ [][NextCrash]_vars

\* ------------------------------------------------------------------------
\* Hashing one picture with a hash size asked for
\* ------------------------------------------------------------------------

\* The pictures a file may hold
Pictures ==
    {Picture(scene, quarters, time) :
        scene \in 1..2, quarters \in 0..3, time \in {"", "2020:01:01"}}

\* One picture, x/a, and nothing else
InitPure ==
    /\ \E img \in Pictures :
         disk = [f \in Paths |-> IF f = <<"x", "a">> THEN img ELSE NoFile]
    /\ trashDir = {}
    /\ db = <<>>
    /\ inserted = <<>>
    /\ last = Cmd("start")
    /\ steps = 0
    /\ procs = [p \in Procs |-> Idle]

\* The user turns the picture by a quarter and saves it.
Turn ==
    /\ disk' = [disk EXCEPT ![<<"x", "a">>] = rotate(@, 1)]
    /\ last' = Cmd("turn")
    /\ UNCHANGED <<trashDir, db, inserted, steps, procs>>

\* --hash-size=<x>: __main__ sets HASH_SIZE = next_power_of_2(int(x)), and
\* hash_file is called with it (for the sizes a picture can be hashed with).
HashWithSize ==
    /\ \E x \in Requests :
         LET size == next_power_of_2(x)
         IN  last' = [Cmd("hash") EXCEPT
                         !.asked = x, !.hash_size = size,
                         !.tried = IF size.exp <= MaxHashExp
                                   THEN hash_file(<<"x", "a">>, disk, 2 ^ size.exp)
                                   ELSE NoResult]
    /\ UNCHANGED <<disk, trashDir, db, inserted, steps, procs>>

NextPure ==
    \/ Turn
    \/ HashWithSize

SpecPure == InitPure /\ [][NextPure]_vars

\* ------------------------------------------------------------------------
\* The indexer over batches with files that fail
\* ------------------------------------------------------------------------

\* What each path may hold when a batch is indexed: pictures, files that
\* cannot be opened, pictures the decoder refuses.
BatchCandidates(f) ==
    CASE f = <<"x", "a">> -> {Dated, Corrupt, Huge}
      [] f = <<"x", "b">> -> {Undated, Corrupt, Huge}
      [] f = <<"y", "a">> -> {Turned, Huge}
      [] f = <<"y", "b">> -> {Other, Corrupt}
      [] OTHER -> {NoFile}

\* The tool has not been used yet.
InitBatch ==
    /\ disk \in [Paths -> {NoFile, Dated, Turned, Undated, Other, Corrupt, Huge}]
    /\ \A f \in Paths : disk[f] \in BatchCandidates(f)
    /\ trashDir = {}
    /\ db = <<>>
    /\ inserted = <<>>
    /\ last = Cmd("start")
    /\ steps = 0
    /\ procs = [p \in Procs |-> Idle]

NextBatch ==
    \/ Add
    \/ Remove
    \/ Clear

SpecBatch == InitBatch /\ [][NextBatch]_vars

\* ------------------------------------------------------------------------
\* Properties of the resolver
\* ------------------------------------------------------------------------

WithHash(coll, h) == {d \in Range(Docs(coll)) : d.hash = h}

Hashes(coll) == {d.hash : d \in Range(Docs(coll))}

Times(dup) == {dup.items[i].capture_time : i \in 1..Len(dup.items)}

Files(dup) == {dup.items[i].file_name : i \in 1..Len(dup.items)}

\* The fingerprint groups of two or more documents
Clusters(coll) == Range(CHOOSE dups \in aggregate(coll) : TRUE)

\* C5. Resolver correctness: find(db, match_time=False) returns exactly one
\* cluster for each fingerprint held by two or more records and none for any
\* other; a cluster's members are exactly the records with its fingerprint,
\* each once and with the record's fields, no record is in two clusters,
\* and the count is the number of members and more than 1.
ResolverCorrect ==
    \A dups \in find(db, FALSE) :
      /\ \A h \in Hashes(db) :
            Cardinality({i \in 1..Len(dups) : dups[i]._id = h})
                = IF Cardinality(WithHash(db, h)) >= 2 THEN 1 ELSE 0
      /\ \A i \in 1..Len(dups) :
            /\ dups[i]._id \in Hashes(db)
            /\ Files(dups[i]) = {d._id : d \in WithHash(db, dups[i]._id)}
            /\ Len(dups[i].items) = Cardinality(Files(dups[i]))
            /\ \A j \in 1..Len(dups[i].items) :
                  dups[i].items[j] = Item(DocOf(db, dups[i].items[j].file_name))
            /\ dups[i].total = Len(dups[i].items)
            /\ dups[i].total > 1
      /\ \A i, k \in 1..Len(dups) :
            i # k => Files(dups[i]) \cap Files(dups[k]) = {}

\* find has printed one cluster of two files while the collection holds a
\* third record with another fingerprint.
ResolverWitness ==
    /\ last.op = "print" /\ ~last.match_time
    /\ Len(last.dups) = 1 /\ last.dups[1].total = 2
    /\ Cardinality(Ids(db)) = 3
    /\ last.dups \in find(db, FALSE)

\* C3. Time-match bias: with match_time set, find keeps every fingerprint
\* cluster (of size > 1) in which some member's capture time is the sentinel
\* "Time unknown", even when the members' capture times differ.
TimeMatchBias ==
    \A dups \in find(db, TRUE) :
      \A c \in Clusters(db) : Unknown \in Times(c) => c \in Range(dups)

\* C4. Time-match exclusion: with match_time set, find returns no cluster
\* whose members all have known capture times that are not all equal, it
\* returns every cluster of size > 1 whose members all have the same capture
\* time, and every cluster it returns is a whole fingerprint cluster.
TimeMatchExclusion ==
    \A dups \in find(db, TRUE) :
      /\ \A i \in 1..Len(dups) :
            ~(Unknown \notin Times(dups[i]) /\ Cardinality(Times(dups[i])) > 1)
      /\ \A c \in Clusters(db) : Cardinality(Times(c)) = 1 => c \in Range(dups)
      /\ \A i \in 1..Len(dups) : dups[i] \in Clusters(db)
      /\ \A i, k \in 1..Len(dups) : i # k => dups[i] # dups[k]

\* find --match-time has printed a list that lacks a fingerprint cluster
\* whose capture times are known and differ.
TimeMatchExclusionWitness ==
    /\ last.op = "print" /\ last.match_time
    /\ last.dups \in find(db, TRUE)
    /\ \E c \in Clusters(db) :
          /\ c \notin Range(last.dups)
          /\ Unknown \notin Times(c) /\ Cardinality(Times(c)) > 1

\* ------------------------------------------------------------------------
\* Properties of the disposal engine
\* ------------------------------------------------------------------------

\* The first member of each cluster
Keepers(duplicates) ==
    {duplicates[i].items[1].file_name : i \in 1..Len(duplicates)}

\* Where delete_picture puts a file: "./Trash/" + basename
InTrash(f) == <<DefaultTrash, basename(f)>>

AllTrue(results) == \A i \in 1..Len(results) : results[i]

NoRecordChanged ==
    \A f \in Ids(db') : f \in Ids(db) /\ DocOf(db', f) = DocOf(db, f)

\* The calls of one delete_duplicates that met no error but a missing file
OnlyMissing(cmd) ==
    /\ cmd.op = "delete"
    /\ ~cmd.raised
    /\ \A line \in cmd.log : line[1] # "Error"

AllPresent(files, fs) == \A i \in 1..Len(files) : fs[files[i]] # NoFile

\* Whether the file of the i-th of the files is on the disk when a run that
\* meets no other error reaches it: it was there before the run, or an
\* earlier file of the run has been moved to that very path.
RECURSIVE PresentWhenReached(_, _, _)
PresentWhenReached(files, i, fs) ==
    \/ fs[files[i]] # NoFile
    \/ \E j \in 1..(i - 1) :
          /\ files[j] # files[i]
          /\ InTrash(files[j]) = files[i]
          /\ PresentWhenReached(files, j, fs)

FailSoft ==
    [][ OnlyMissing(last') =>
          LET doomed == Doomed(last'.dups)
              missing == {doomed[i] : i \in {j \in 1..Len(doomed) :
                                                ~PresentWhenReached(doomed, j, disk)}}
          IN  /\ Len(last'.results) = Len(doomed)
              /\ \A i \in 1..Len(doomed) :
                    IF doomed[i] \in missing
                    THEN /\ ~last'.results[i]
                         /\ doomed[i] \in Ids(db')
                         /\ DocOf(db', doomed[i]) = DocOf(db, doomed[i])
                    ELSE /\ last'.results[i]
                         /\ doomed[i] \notin Ids(db')
                         /\ disk'[InTrash(doomed[i])] # NoFile
              /\ last'.totals = <<Cardinality(Range(doomed) \ missing), Len(doomed)>>
              /\ Ids(db') = Ids(db) \ (Range(doomed) \ missing) ]_vars

\* find --delete has met a missing file in its first cluster, has left that
\* record, and has disposed of the member of its second cluster.
FailSoftWitness ==
    /\ OnlyMissing(last)
    /\ Len(last.dups) = 2
    /\ last.totals = <<1, 2>>
    /\ LET f == last.dups[1].items[2].file_name
           g == last.dups[2].items[2].file_name
       IN  /\ <<"File not found", f>> \in last.log
           /\ f \in Ids(db)
           /\ last.results = <<FALSE, TRUE>>
           /\ g \notin Ids(db) /\ disk[g] = NoFile /\ disk[InTrash(g)] # NoFile

\* C8. Configured trash path: find --delete and the review page's delete
\* put every file they dispose of under the trash path the user configured
\* with --trash, which they create first if it does not exist.
ConfiguredTrash ==
    last.op \in {"delete", "picture"} =>
        /\ \A m \in last.moved : dirname(m[2]) = last.trash
        /\ last.moved # {} => last.trash \in trashDir

\* C9. Disposal never raises: delete_picture, and so delete_duplicates,
\* returns normally whatever goes wrong for a member; any error, preparing
\* the trash directory included, is one failure counted, and the remaining
\* members are still processed.
NeverRaises ==
    /\ last.op \in {"delete", "picture"} => ~last.raised
    /\ last.op = "delete" =>
          /\ Len(last.results) = Len(Doomed(last.dups))
          /\ last.totals = <<Len(SelectSeq(last.results, LAMBDA r : r)),
                              Len(last.results)>>

\* ------------------------------------------------------------------------
\* Properties of the indexer
\* ------------------------------------------------------------------------

\* The files a command reported that it hashed or tried to hash
HashedBy(cmd) == {e[2] : e \in {l \in cmd.log : l[1] \in {"Hashed", "Unable to open"}}}

\* C6. Idempotent indexing: add run a second time over the same paths,
\* against the same store and with the files unchanged, leaves the store
\* with the same records and the same record count, hashes no file that is
\* in the store, and ends with no duplicate-key error, reported or raised.
IdempotentIndexing ==
    [][ (last.op = "add" /\ last'.op = "add" /\ last'.paths = last.paths) =>
          /\ Range(Docs(db')) = Range(Docs(db))
          /\ Len(Docs(db')) = Len(Docs(db))
          /\ HashedBy(last') \cap Ids(db) = {}
          /\ \A e \in last'.log : e[1] # "Duplicate key"
          /\ ~last'.raised ]_vars

\* A second run that found files of its paths stored by the first
IdempotentIndexingWitness ==
    /\ last.op = "add"
    /\ last.again
    /\ Cardinality({e \in last.log : e[1] = "Already hashed"}) >= 2
    /\ {e[2] : e \in {l \in last.log : l[1] = "Already hashed"}} \subseteq Ids(db)

\* C12. Duplicate-key race: when add commands run at the same time over
\* the same files and one inserts a file between another's existence check
\* and its insert, the late insert is caught and reported, not raised; the
\* command goes on to its end, the store holds one record for each
\* identity, and the record first written is the one kept.
DuplicateKeyRace ==
    [][ /\ \A p \in Procs :
              (/\ procs[p].pc = "insert"
               /\ procs'[p] # procs[p]
               /\ Head(procs[p].todo).file \in Ids(db)) =>
                  /\ <<"Duplicate key", Head(procs[p].todo).file>> \in last'.log
                  /\ ~last'.raised
                  /\ procs'[p].pc \in {"insert", "scan", "done"}
                  /\ db' = db
        /\ \A p \in Procs : procs'[p].pc # "failed"
        /\ \A f \in Ids(db') : count(db', f) = 1 ]_vars

\* Two commands have run to their end over the same files, the last step
\* being a late insert reported as a duplicate key, and the record holds
\* what the other command wrote.
DuplicateKeyRaceWitness ==
    /\ \A p \in Procs : procs[p].pc = "done"
    /\ last.op = "insert"
    /\ <<"Duplicate key", last.tried.file>> \in last.log
    /\ count(db, last.tried.file) = 1
    /\ Cardinality(Ids(db)) >= 2

\* The image files now under the paths of a command
Discovered(cmd) ==
    UNION {Range(get_image_files(d, disk)) : d \in cmd.paths}

\* C14. Clear: after clear, whatever the store held, the record count is 0,
\* find returns an empty sequence for both values of match_time, and a
\* later add treats every file as new.
ClearEmpties ==
    [][ /\ last'.op = "clear" =>
              /\ Len(Docs(db')) = 0
              /\ \A f \in Paths : count(db', f) = 0
              /\ \A m \in BOOLEAN : find(db', m) = {<<>>}
        /\ (last.op = "clear" /\ last'.op = "add") =>
              /\ \A e \in last'.log : e[1] # "Already hashed"
              /\ HashedBy(last') = Discovered(last') ]_vars

\* A clear of a store that held records
ClearEmptiesWitness ==
    /\ last.op = "clear"
    /\ last.took
    /\ db = <<>>
    /\ Cardinality(Discovered([paths |-> UserDirs])) >= 2

\* C15. Store removal is metadata-only and idempotent: remove deletes the
\* records of the image files discovered under the given paths, leaves
\* every other record as it was and no file deleted or moved; removing an
\* identity that has no record (remove_image, or remove run twice) leaves
\* the store as it was and returns normally.
RemoveMetadataOnly ==
    [][ last'.op = "remove" =>
          /\ disk' = disk /\ trashDir' = trashDir
          /\ Ids(db') = Ids(db) \ Discovered(last')
          /\ NoRecordChanged
          /\ ~last'.raised
          /\ \A f \in Paths \ Ids(db') :
                remove_image(f, Run(db', inserted', {})) = Run(db', inserted', {})
          /\ (last.op = "remove" /\ last.paths = last'.paths) =>
                (db' = db /\ inserted' = inserted) ]_vars

\* A remove that took some records and left others
RemoveMetadataOnlyWitness ==
    /\ last.op = "remove"
    /\ last.took
    /\ db # <<>>
    /\ Discovered(last) # {}

\* C16. Rotation invariance of the fingerprint: for any decodable image and
\* hash size, the fingerprint (the four orientation hashes, sorted and
\* joined) is the same for the image and for its rotations by 90, 180 and
\* 270 degrees.
RotationInvariance ==
    \A f \in Paths : \A e \in 0..MaxHashExp : \A q \in 1..3 :
      (disk[f] # NoFile /\ disk[f].kind = "image") =>
        LET turned == [disk EXCEPT ![f] = rotate(@, q)]
        IN  /\ hash_file(f, disk, 2 ^ e) # NoResult
            /\ hash_file(f, turned, 2 ^ e).hashes = hash_file(f, disk, 2 ^ e).hashes
            /\ (last.op = "hash" /\ last.tried # NoResult /\ last.hash_size = Pow2(e)) =>
                  hash_file(f, turned, 2 ^ e).hashes = last.tried.hashes

\* A picture stored a quarter turned has been hashed, and its four
\* orientation hashes differ.
RotationInvarianceWitness ==
    /\ last.op = "hash"
    /\ last.tried # NoResult
    /\ disk[<<"x", "a">>].rot = 1
    /\ Cardinality(Range(last.tried.hashes)) = 4

\* x <= y for two ints
AtMost(x, y) == x.exp < y.exp \/ (x.exp = y.exp /\ x.rem <= y.rem)

\* C17. Hash-size normalization: for every non-negative integer x,
\* next_power_of_2(x) is 1 for 0 and otherwise the smallest power of two
\* that is >= x; it gives a normalized value back unchanged; and the hash
\* size taken from --hash-size is always such a power of two.
HashSizeNormalized ==
    /\ \A x \in Requests :
          LET y == next_power_of_2(x)
          IN  /\ y.rem = 0 /\ y.exp >= 0
              /\ AtMost(x, y)
              /\ \A k \in 0..y.exp : AtMost(x, Pow2(k)) => k = y.exp
              /\ next_power_of_2(y) = y
    /\ last.op = "hash" =>
          /\ last.hash_size.rem = 0
          /\ AtMost(last.asked, last.hash_size)
          /\ \A k \in 0..last.hash_size.exp :
                AtMost(last.asked, Pow2(k)) => k = last.hash_size.exp

\* The files in the trash
TrashFiles(fs) == {f \in Paths : dirname(f) = DefaultTrash /\ fs[f] # NoFile}

Successes(results) == Len(SelectSeq(results, LAMBDA r : r))

\* C18. No loss in the trash: after a delete_duplicates or delete_picture
\* call, every file for which True was returned is in the trash as an entry
\* of its own: the number of files in the trash has grown by the number of
\* successful disposals, and files with the same base name have not
\* overwritten each other.
NoLossInTrash ==
    [][ (last'.op \in {"delete", "picture"} /\ ~last'.raised) =>
          Cardinality(TrashFiles(disk')) =
              Cardinality(TrashFiles(disk)) + Successes(last'.results) ]_vars

\* C19. Disposal converges and never removes the last copy: after find and
\* delete_duplicates with no member failure, a second find with the same
\* match_time returns no cluster, and every fingerprint that had a record
\* before, with its file at its path, still has a record in the store whose
\* file is at its path.
DisposalConverges ==
    [][ (last'.op = "delete" /\ ~last'.raised /\ AllTrue(last'.results)) =>
          /\ find(db', last'.match_time) = {<<>>}
          /\ \A h \in Hashes(db) :
                (\E d \in WithHash(db, h) : disk[d._id] # NoFile) =>
                  \E d \in WithHash(db', h) : disk'[d._id] # NoFile ]_vars

\* C20. Remove clears everything under a path: after remove, the store
\* holds no record whose identity lies under any of the given paths,
\* whether or not its file still exists on disk.
RemoveClearsPath ==
    last.op = "remove" =>
        \A f \in Ids(db) : dirname(f) \notin last.paths

\* The identities a run of add over paths leaves in an empty store
AddedBy(paths) == {Ids(r.db) : r \in add(paths, disk, {Run(<<>>, <<>>, {})})}

\* C13. Crash-safe resume: if add is interrupted at any point of a batch,
\* the store holds only whole records of files that were hashed (none in
\* part, none of a file that was not hashed), and the same add run again to
\* its end leaves the identities a single run without interruption leaves.
CrashSafeResume ==
    /\ \A d \in Range(Docs(db)) :
          /\ hash_file(d._id, disk, HASH_SIZE) \notin {NoResult, Uncaught}
          /\ d = Document(hash_file(d._id, disk, HASH_SIZE))
    /\ (procs[1].pc = "killed" /\ procs[2].pc = "done") =>
          Ids(db) \in AddedBy(procs[1].args)

\* The first run was killed with one file of a directory inserted and the
\* next one waiting; the second run has inserted the rest.
CrashSafeResumeWitness ==
    /\ procs[1].pc = "killed"
    /\ procs[1].todo # <<>>
    /\ Head(procs[1].paths) = dirname(Head(procs[1].todo).file)
    /\ \E f \in Ids(db) :
          /\ dirname(f) = Head(procs[1].paths)
          /\ f # Head(procs[1].todo).file
          /\ inserted[1] = f
    /\ procs[2].pc = "done"
    /\ Head(procs[1].todo).file \in Ids(db)

\* The files of the paths of a command that can be decoded
Decodable(cmd) ==
    {f \in Paths : dirname(f) \in cmd.paths /\ disk[f] # NoFile /\ disk[f].kind = "image"}

\* C11. Per-file failure isolation in the hashing pipeline: a file that
\* fails to decode gives no result and never ends the batch; every other
\* file of the batch is hashed and, under add, is in the store afterwards.
FailureIsolation ==
    last.op = "add" =>
        /\ ~last.raised
        /\ Decodable(last) \subseteq Ids(db)

\* C7. Insert-only store: whatever add commands run, one after another or
\* at the same time, a record stays as first written (fingerprint, file
\* size, image size, capture time) until a remove or a clear takes it, and
\* an insert tried for an identity that has a record leaves the store as
\* it was.
InsertOnly ==
    [][ /\ last'.op \notin {"remove", "clear"} =>
              \A f \in Ids(db) : /\ count(db', f) = 1
                                 /\ DocOf(db', f) = DocOf(db, f)
        /\ (last'.op = "insert" /\ last'.tried.file \in Ids(db)) =>
              /\ db' = db
              /\ inserted' = inserted ]_vars

\* An insert was tried for a stored identity with another fingerprint than
\* the record holds, and was reported as a duplicate key.
InsertOnlyWitness ==
    /\ last.op = "insert"
    /\ last.tried.file \in Ids(db)
    /\ <<"Duplicate key", last.tried.file>> \in last.log
    /\ DocOf(db, last.tried.file).hash # last.tried.hashes

\* The positions of a cluster's members in the insertion history
Position(file) == CHOOSE i \in 1..Len(inserted) : inserted[i] = file

\* C10. Keeper is the earliest-inserted member: in every cluster find
\* returns, the members come in the order in which their records were
\* inserted, so the first, which delete_duplicates keeps, is the
\* earliest-inserted record of the fingerprint.
KeeperEarliest ==
    \A match_time \in BOOLEAN :
      \A dups \in find(db, match_time) :
        \A i \in 1..Len(dups) :
          \A j, k \in 1..Len(dups[i].items) :
            j < k => Position(dups[i].items[j].file_name)
                       < Position(dups[i].items[k].file_name)

====
